---- MODULE Spec2Model ----
(***************************************************************************)
(* Recurring task lifecycle and filtered task list of the todo backend     *)
(* (backend/src/service/task_service.py, repository/task_repository.py,    *)
(* db/session.py, api/tasks.py).                                           *)
(*                                                                         *)
(* Spec      the task store and its request handlers.  complete_task is    *)
(*           split at its store calls (flush, insert, commit) so that a    *)
(*           failure between them is a step of the model.                  *)
(* SpecCalc  the two pure functions of the recurrence engine,              *)
(*           calculate_next_due_date and should_generate_next_instance,    *)
(*           applied to inputs drawn from a bounded calendar.              *)
(* SpecRows  Spec started on every kind of row the table can hold.         *)
(* SpecList  get_all_with_filters on a store that does not change.         *)
(* SpecPaged the handlers of Spec running beside one list request.         *)
(* SpecEdit  the handlers of Spec with PATCH bodies that carry recurrence  *)
(*           fields or a due date with a UTC offset.                       *)
(* SpecPattern  complete_task on a task whose pattern the recurrence       *)
(*           engine has no branch for.                                     *)
(* SpecRate  the rate limiter of middleware/rate_limit.py.                 *)
(*                                                                         *)
(* A datetime is a record [y, m, d, s, u]: calendar date, second of the    *)
(* day and microsecond, the resolution of Python's datetime.  Due dates    *)
(* are UTC instants, as task_service.py:278 takes them to be.              *)
(***************************************************************************)
EXTENDS Integers, Sequences, FiniteSets, TLC

VARIABLES
    db,      \* the committed rows of the tasks table: id -> row
    nextId,  \* the next value of the id sequence
    clock,   \* datetime.now(), in ticks
    req,     \* the complete_task request in flight and its session
    gen,     \* history: {[id, origin]}, the rows complete_task committed as
             \* the next instance of row origin
    ret,     \* what the last finished handler returned
    calc,    \* SpecCalc: the call being made and its result
    qry,     \* the list request (get_all_with_filters) in progress, with the
             \* pages its client has received so far
    limiter, \* SpecRate: the RateLimiter instance of middleware/rate_limit.py
    calls    \* SpecRate: the wall clock, and history: per user the times of
             \* the calls allowed within the last hour, and the last answer

vars == <<db, nextId, clock, req, gen, ret, calc, qry, limiter, calls>>

storeVars == <<db, nextId, clock, req, gen, ret, qry, limiter, calls>>

(***************************************************************************)
(* Bounds                                                                  *)
(***************************************************************************)
\* first year of the calendar window of SpecCalc
FirstYear == 2023

\* number of consecutive years in the window (2024 is a leap year)
NumYears == 2

\* rows the store ever allocates (ids 1..MaxId)
MaxId == 3

\* ticks of the clock; every request that changes the store reads a later
\* time than the one before it
MaxClock == 3

(***************************************************************************)
(* Python values                                                           *)
(***************************************************************************)
\* None of an optional enum column
None == "None"

\* None of an optional date or datetime column
NoDate == [none |-> TRUE]

\* NULL of parent_task_id (ids start at 1)
NoId == 0

\* NULL of updated_at (the clock starts at 1)
NoTime == 0

DAILY == "daily"

WEEKLY == "weekly"

MONTHLY == "monthly"

RecurrencePattern == {DAILY, WEEKLY, MONTHLY}

HIGH == "high"

MEDIUM == "medium"

LOW == "low"

TaskPriority == {HIGH, MEDIUM, LOW}

(***************************************************************************)
(* Calendar arithmetic of Python's datetime module, which the service      *)
(* calls through timedelta, monthrange and datetime.replace.               *)
(***************************************************************************)
Min(a, b) == IF a <= b THEN a ELSE b

\* calendar.isleap
IsLeap(y) == (y % 4 = 0) /\ ((y % 100 # 0) \/ (y % 400 = 0))

\* the second component of calendar.monthrange(y, m)
MonthRange(y, m) ==
    IF m = 2 THEN (IF IsLeap(y) THEN 29 ELSE 28)
    ELSE IF m \in {4, 6, 9, 11} THEN 30 ELSE 31

\* datetime._days_before_year
DaysBeforeYear(y) ==
    LET p == y - 1 IN p * 365 + (p \div 4) - (p \div 100) + (p \div 400)

\* datetime._DAYS_BEFORE_MONTH, for a common year
DaysBeforeMonthCommon(m) ==
    <<0, 31, 59, 90, 120, 151, 181, 212, 243, 273, 304, 334>>[m]

\* datetime._days_before_month
DaysBeforeMonth(y, m) ==
    DaysBeforeMonthCommon(m) + (IF m > 2 /\ IsLeap(y) THEN 1 ELSE 0)

\* datetime._ymd2ord: the proleptic Gregorian ordinal of a date
ToOrdinal(y, m, d) == DaysBeforeYear(y) + DaysBeforeMonth(y, m) + d

\* datetime._ord2ymd: the date of an ordinal, by 400/100/4/1-year cycles
FromOrdinal(ord) ==
    LET n0   == ord - 1
        n400 == n0 \div 146097
        r400 == n0 % 146097
        n100 == r400 \div 36524
        r100 == r400 % 36524
        n4   == r100 \div 1461
        r4   == r100 % 1461
        n1   == r4 \div 365
        n    == r4 % 365
        year == n400 * 400 + 1 + n100 * 100 + n4 * 4 + n1
    IN  IF n1 = 4 \/ n100 = 4
        THEN [y |-> year - 1, m |-> 12, d |-> 31]
        ELSE LET leap  == (n1 = 3) /\ ((n4 # 24) \/ (n100 = 3))
                 adj(k) == IF k > 2 /\ leap THEN 1 ELSE 0
                 month0 == (n + 50) \div 32
                 prec0  == DaysBeforeMonthCommon(month0) + adj(month0)
                 month  == IF prec0 > n THEN month0 - 1 ELSE month0
                 prec   == DaysBeforeMonthCommon(month) + adj(month)
             IN  [y |-> year, m |-> month, d |-> n - prec + 1]

\* datetime + timedelta(days = k): the date moves, the time of day stays
AddDays(dt, k) ==
    LET ymd == FromOrdinal(ToOrdinal(dt.y, dt.m, dt.d) + k)
    IN  [dt EXCEPT !.y = ymd.y, !.m = ymd.m, !.d = ymd.d]

\* datetime.__le__ on two UTC instants
DtLeq(a, b) ==
    \/ a.y < b.y
    \/ a.y = b.y /\ a.m < b.m
    \/ a.y = b.y /\ a.m = b.m /\ a.d < b.d
    \/ a.y = b.y /\ a.m = b.m /\ a.d = b.d /\ a.s < b.s
    \/ a.y = b.y /\ a.m = b.m /\ a.d = b.d /\ a.s = b.s /\ a.u <= b.u

\* datetime.combine(date, datetime.max.time()): 23:59:59.999999 of the day
CombineMax(date) ==
    [y |-> date.y, m |-> date.m, d |-> date.d, s |-> 86399, u |-> 999999]

\* datetime.combine(date, datetime.min.time()): 00:00:00 of the day
CombineMin(date) ==
    [y |-> date.y, m |-> date.m, d |-> date.d, s |-> 0, u |-> 0]

\* the date part of a datetime (pydantic's datetime -> date coercion)
DateOf(dt) == [y |-> dt.y, m |-> dt.m, d |-> dt.d]

(***************************************************************************)
(* Rate limiter (middleware/rate_limit.py).  Time is counted in ticks; the *)
(* two windows and the two limits are scaled down.                         *)
(***************************************************************************)
\* timedelta(minutes=1), in ticks
OneMinute == 2

\* timedelta(hours=1), in ticks
OneHour == 4

\* the limits given to RateLimiter(...)
RequestsPerMinute == 2

RequestsPerHour == 3

\* the last tick of the wall clock
MaxNow == 5

\* RateLimiter.__init__: the two tables are defaultdict(list), user_id ->
\* list of (timestamp, count)
RateLimiter(requests_per_hour, requests_per_minute) ==
    [requests_per_hour |-> requests_per_hour,
     requests_per_minute |-> requests_per_minute,
     hourly_requests |-> <<>>, minute_requests |-> <<>>]

\* no call was made yet
NoCalls == [now |-> 0, allowed |-> <<>>, last |-> [user_id |-> None]]

\* the limiter as constructed, before any call
LimiterUnused ==
    /\ limiter = RateLimiter(RequestsPerHour, RequestsPerMinute)
    /\ calls = NoCalls

\* table[user_id] of a defaultdict(list): a missing key reads as the empty list
Entries(table, user_id) ==
    IF user_id \in DOMAIN table THEN table[user_id] ELSE <<>>

\* table[user_id] = entries
SetEntries(table, user_id, entries) ==
    [u \in DOMAIN table \cup {user_id} |->
        IF u = user_id THEN entries ELSE table[u]]

\* the list comprehension [e for e in entries if timestamp > cutoff]
Newer(entries, cutoff) == SelectSeq(entries, LAMBDA e : e.timestamp > cutoff)

\* a cleanup that empties the two lists of the user
CleanupForgetsAll(l, user_id, now) ==
    [l EXCEPT !.minute_requests = SetEntries(l.minute_requests, user_id, <<>>),
              !.hourly_requests = SetEntries(l.hourly_requests, user_id, <<>>)]

\* RateLimiter._cleanup_old_entries(user_id, now)
Cleanup(l, user_id, now) ==
    [l EXCEPT
        !.minute_requests =
            SetEntries(l.minute_requests, user_id,
                Newer(Entries(l.minute_requests, user_id), now - OneMinute)),
        !.hourly_requests =
            SetEntries(l.hourly_requests, user_id,
                Newer(Entries(l.hourly_requests, user_id), now - OneHour))]

RECURSIVE SumCounts(_)
\* sum(count for timestamp, count in entries)
SumCounts(entries) ==
    IF entries = <<>> THEN 0 ELSE Head(entries).count + SumCounts(Tail(entries))

\* RateLimiter.check_rate_limit(user_id) at the time calls.now: clean, test
\* the minute limit, then the hour limit, then record the request
CheckRateLimit(user_id) ==
    LET now == calls.now
        cleaned == Cleanup(limiter, user_id, now)
        minute_count == SumCounts(cleaned.minute_requests[user_id])
        hour_count == SumCounts(cleaned.hourly_requests[user_id])
        entry == [timestamp |-> now, count |-> 1]
    IN  /\ IF minute_count >= limiter.requests_per_minute
              \/ hour_count >= limiter.requests_per_hour
           THEN /\ limiter' = cleaned
                /\ calls' = [calls EXCEPT !.last = [user_id |-> user_id,
                                                    is_allowed |-> FALSE]]
           ELSE /\ limiter' =
                      [cleaned EXCEPT
                          !.minute_requests[user_id] = Append(@, entry),
                          !.hourly_requests[user_id] = Append(@, entry)]
                /\ calls' = [calls EXCEPT
                                !.last = [user_id |-> user_id,
                                          is_allowed |-> TRUE],
                                !.allowed =
                                    SetEntries(@, user_id,
                                        Append(Entries(@, user_id), now))]
        /\ UNCHANGED <<db, nextId, clock, req, gen, ret, calc, qry>>

\* time passes; the history keeps the calls of the last hour
Tick ==
    /\ calls.now < MaxNow
    /\ calls' = [calls EXCEPT
                    !.now = @ + 1,
                    !.allowed = [u \in DOMAIN @ |->
                                    SelectSeq(@[u], LAMBDA at :
                                        at > calls.now + 1 - OneHour)]]
    /\ UNCHANGED <<db, nextId, clock, req, gen, ret, calc, qry, limiter>>

(***************************************************************************)
(* Recurrence engine (task_service.py)                                     *)
(***************************************************************************)
\* the ValueError of an unknown pattern
InvalidPattern == [error |-> "ValueError"]

\* calculate_next_due_date without the month-end clamp: the day of the month
\* is carried into the next month and spills over (Jan 31 -> Mar 3)
CalculateNextDueDateUnclamped(current_due_date, pattern) ==
    IF pattern = DAILY THEN AddDays(current_due_date, 1)
    ELSE IF pattern = WEEKLY THEN AddDays(current_due_date, 7)
    ELSE IF pattern = MONTHLY THEN
        LET next_month == IF current_due_date.m + 1 > 12 THEN 1
                          ELSE current_due_date.m + 1
            next_year  == IF current_due_date.m + 1 > 12
                          THEN current_due_date.y + 1 ELSE current_due_date.y
            first == [current_due_date EXCEPT !.y = next_year,
                                              !.m = next_month, !.d = 1]
        IN  AddDays(first, current_due_date.d - 1)
    ELSE [error |-> "ValueError"]

\* calculate_next_due_date with timedelta(days=1) in the weekly branch too
CalculateNextDueDateWeeklyAsDaily(current_due_date, pattern) ==
    IF pattern \in {DAILY, WEEKLY} THEN AddDays(current_due_date, 1)
    ELSE CalculateNextDueDateUnclamped(current_due_date, pattern)

\* calculate_next_due_date whose last branch falls back to one day instead of
\* raising
CalculateNextDueDateDefaultDaily(current_due_date, pattern) ==
    IF pattern \in {WEEKLY, MONTHLY}
    THEN CalculateNextDueDateUnclamped(current_due_date, pattern)
    ELSE AddDays(current_due_date, 1)

\* TaskService.calculate_next_due_date
CalculateNextDueDate(current_due_date, pattern) ==
    IF pattern = DAILY THEN AddDays(current_due_date, 1)
    ELSE IF pattern = WEEKLY THEN AddDays(current_due_date, 7)
    ELSE IF pattern = MONTHLY THEN
        LET current_day   == current_due_date.d
            current_month == current_due_date.m
            current_year  == current_due_date.y
            next_month == IF current_month + 1 > 12 THEN 1 ELSE current_month + 1
            next_year  == IF current_month + 1 > 12 THEN current_year + 1
                                                    ELSE current_year
            last_day_of_next_month == MonthRange(next_year, next_month)
            next_day == Min(current_day, last_day_of_next_month)
        IN  [current_due_date EXCEPT !.y = next_year, !.m = next_month,
                                     !.d = next_day]
    ELSE InvalidPattern

\* should_generate_next_instance with datetime.min.time(): the end date
\* stops at its midnight and excludes the day itself
ShouldGenerateStartOfDay(recurrence_end_date, next_due_date) ==
    IF recurrence_end_date = NoDate THEN TRUE
    ELSE DtLeq(next_due_date, CombineMin(recurrence_end_date))

\* should_generate_next_instance that never looks at the end date
ShouldGenerateAlways(recurrence_end_date, next_due_date) == TRUE

\* TaskService.should_generate_next_instance
ShouldGenerateNextInstance(recurrence_end_date, next_due_date) ==
    IF recurrence_end_date = NoDate THEN TRUE
    ELSE DtLeq(next_due_date, CombineMax(recurrence_end_date))

(***************************************************************************)
(* SpecCalc: the recurrence engine applied to a bounded calendar.          *)
(***************************************************************************)
Years == (FirstYear .. (FirstYear + NumYears - 1)) \cup {2100}

\* times of day: midnight, 09:00, 23:59:59, 23:59:59.5, 23:59:59.999999
TimesOfDay == {<<0, 0>>, <<32400, 0>>, <<86399, 0>>, <<86399, 500000>>,
               <<86399, 999999>>}

DateTimes ==
    { [y |-> yy, m |-> mm, d |-> dd, s |-> t[1], u |-> t[2]] :
        yy \in Years, mm \in 1..12, dd \in 1..31, t \in TimesOfDay }

\* the datetimes Python can build: the day exists in its month
ValidDateTimes == { dt \in DateTimes : dt.d <= MonthRange(dt.y, dt.m) }

\* end dates tried by SpecCalc: a leap day, a mid-month day, a year end
EndDates == { [y |-> 2024, m |-> 2, d |-> 29], [y |-> 2024, m |-> 6, d |-> 15],
              [y |-> 2024, m |-> 12, d |-> 31] }

CalcIdle == [op |-> "idle", due |-> NoDate, pattern |-> None, end |-> NoDate,
             out |-> NoDate]

\* the store stays empty under SpecCalc
StoreUnused ==
    /\ db = <<>>
    /\ nextId = 1
    /\ clock = 1
    /\ req = [pc |-> "idle"]
    /\ gen = {}
    /\ ret = [op |-> "none"]
    /\ qry = [pc |-> "idle"]
    /\ LimiterUnused

InitCalc ==
    /\ StoreUnused
    /\ \/ \E dt \in ValidDateTimes, p \in RecurrencePattern :
            calc = [CalcIdle EXCEPT !.op = "next?", !.due = dt, !.pattern = p]
       \/ \E dt \in ValidDateTimes, e \in EndDates \cup {NoDate} :
            calc = [CalcIdle EXCEPT !.op = "should?", !.due = dt, !.end = e]

\* one call of calculate_next_due_date(calc.due, calc.pattern)
CalcNext ==
    /\ calc.op = "next?"
    /\ calc' = [calc EXCEPT !.op = "next",
                            !.out = CalculateNextDueDate(calc.due, calc.pattern)]
    /\ UNCHANGED storeVars

\* one call of should_generate_next_instance(task with calc.end, calc.due)
CalcShould ==
    /\ calc.op = "should?"
    /\ calc' = [calc EXCEPT !.op = "should",
                            !.out = ShouldGenerateNextInstance(calc.end, calc.due)]
    /\ UNCHANGED storeVars

NextCalc == CalcNext \/ CalcShould

SpecCalc == InitCalc /\ [][NextCalc]_vars

(***************************************************************************)
(* The calendar as the claims state it, written without the engine's       *)
(* helpers.                                                                *)
(***************************************************************************)
GregorianLeap(y) ==
    IF y % 400 = 0 THEN TRUE ELSE IF y % 100 = 0 THEN FALSE ELSE y % 4 = 0

DaysOfMonth(y, m) ==
    CASE m \in {1, 3, 5, 7, 8, 10, 12} -> 31
      [] m \in {4, 6, 9, 11} -> 30
      [] OTHER -> IF GregorianLeap(y) THEN 29 ELSE 28

\* the calendar day after a date
NextCalendarDay(date) ==
    IF date.d < DaysOfMonth(date.y, date.m)
    THEN [date EXCEPT !.d = date.d + 1]
    ELSE IF date.m < 12 THEN [y |-> date.y, m |-> date.m + 1, d |-> 1]
    ELSE [y |-> date.y + 1, m |-> 1, d |-> 1]

RECURSIVE DaysLater(_, _)
DaysLater(date, k) ==
    IF k = 0 THEN date ELSE DaysLater(NextCalendarDay(date), k - 1)

\* a date is on or before another, by year, month, day
DateOnOrBefore(a, b) ==
    \/ a.y < b.y
    \/ a.y = b.y /\ a.m < b.m
    \/ a.y = b.y /\ a.m = b.m /\ a.d <= b.d

SameTimeOfDay(a, b) == a.s = b.s /\ a.u = b.u

\* 23:59:59 (no fraction) of a date
LastWholeSecond(date) ==
    [y |-> date.y, m |-> date.m, d |-> date.d, s |-> 86399, u |-> 0]

\* a is strictly after b, by date, second, microsecond
StrictlyAfter(a, b) ==
    \/ ~DateOnOrBefore(DateOf(a), DateOf(b))
    \/ DateOf(a) = DateOf(b) /\ (a.s > b.s \/ (a.s = b.s /\ a.u > b.u))

C6_MonthlyClamped ==
    (calc.op = "next" /\ calc.pattern = MONTHLY) =>
        LET ty == IF calc.due.m = 12 THEN calc.due.y + 1 ELSE calc.due.y
            tm == IF calc.due.m = 12 THEN 1 ELSE calc.due.m + 1
        IN  /\ calc.out.y = ty
            /\ calc.out.m = tm
            /\ calc.out.d = (IF calc.due.d <= DaysOfMonth(ty, tm)
                             THEN calc.due.d ELSE DaysOfMonth(ty, tm))
            /\ SameTimeOfDay(calc.out, calc.due)

\* C6 witness: Jan 31 of a leap year goes to Feb 29
C6_Jan31ToFeb29 ==
    /\ calc.op = "next"
    /\ calc.pattern = MONTHLY
    /\ calc.due = [y |-> 2024, m |-> 1, d |-> 31, s |-> 32400, u |-> 0]
    /\ calc.out = [y |-> 2024, m |-> 2, d |-> 29, s |-> 32400, u |-> 0]

\* C7: a DAILY next due date is exactly one calendar day later and a WEEKLY one
\* exactly seven, at the same time of day, across month ends, leap days and
\* year ends.
C7_DailyWeeklyExact ==
    (calc.op = "next" /\ calc.pattern \in {DAILY, WEEKLY}) =>
        /\ DateOf(calc.out) =
              DaysLater(DateOf(calc.due), IF calc.pattern = DAILY THEN 1 ELSE 7)
        /\ SameTimeOfDay(calc.out, calc.due)

\* C7 witness: a week from Feb 26 of a leap year crosses Feb 29 into March
C7_WeekAcrossLeapDay ==
    /\ calc.op = "next"
    /\ calc.pattern = WEEKLY
    /\ calc.due = [y |-> 2024, m |-> 2, d |-> 26, s |-> 86399, u |-> 999999]
    /\ calc.out = [y |-> 2024, m |-> 3, d |-> 4, s |-> 86399, u |-> 999999]

(***************************************************************************)
(* The task store (models/task.py, schemas/task.py,                        *)
(* repository/task_repository.py).  Text is a sequence of characters.      *)
(***************************************************************************)
Users == {"u1", "u2"}

\* the result of a lookup that finds no row, and of an absent next instance
NoRow == [absent |-> TRUE]

IsSpace(c) == c = " "

RECURSIVE LStrip(_)
LStrip(t) ==
    IF t = <<>> THEN t ELSE IF IsSpace(Head(t)) THEN LStrip(Tail(t)) ELSE t

RECURSIVE RStrip(_)
RStrip(t) ==
    IF t = <<>> THEN t
    ELSE IF IsSpace(t[Len(t)]) THEN RStrip(SubSeq(t, 1, Len(t) - 1)) ELSE t

\* str.strip
Strip(t) == RStrip(LStrip(t))

\* str.lower on the tags of the model
Lower(tag) == IF tag = "W" THEN "w" ELSE tag

\* the tag pattern ^[a-zA-Z0-9_-]+$
TagWellFormed(tag) == tag \notin {"", "two words"}

RECURSIVE UniqueTags(_, _)
\* the de-duplication loop of validate_tags: first occurrence kept, compared
\* in lower case
UniqueTags(v, seen) ==
    IF v = <<>> THEN <<>>
    ELSE IF Lower(Head(v)) \in seen THEN UniqueTags(Tail(v), seen)
    ELSE <<Head(v)>> \o UniqueTags(Tail(v), seen \cup {Lower(Head(v))})

ValidationError == [error |-> "ValidationError"]

\* TaskCreate.validate_tags / TaskUpdate.validate_tags: whether the list is
\* accepted, and the list the validator returns
ValidateTags(v) ==
    LET unique_tags == UniqueTags(v, {})
    IN  IF Len(v) > 10 THEN [ok |-> FALSE, tags |-> <<>>]
        ELSE IF \E i \in 1..Len(unique_tags) : ~TagWellFormed(unique_tags[i])
        THEN [ok |-> FALSE, tags |-> <<>>]
        ELSE [ok |-> TRUE, tags |-> unique_tags]

\* TaskCreate(...): the validated model, or the validation error
TaskCreate(title, description, priority, tags, due_date, is_recurring, recurrence_pattern, recurrence_end_date, parent_task_id) ==
    IF Len(title) < 1 THEN ValidationError
    ELSE IF ~ValidateTags(tags).ok THEN ValidationError
    ELSE IF is_recurring /\ (recurrence_pattern = None \/ due_date = NoDate)
    THEN ValidationError
    ELSE [title |-> title, description |-> description, priority |-> priority,
          tags |-> ValidateTags(tags).tags, due_date |-> due_date,
          is_recurring |-> is_recurring,
          recurrence_pattern |-> recurrence_pattern,
          recurrence_end_date |-> recurrence_end_date,
          parent_task_id |-> parent_task_id]

\* Task(...) with the column defaults of models/task.py
TaskDefaults(now) ==
    [user_id |-> "", title |-> <<>>, description |-> <<>>, completed |-> FALSE,
     created_at |-> now, updated_at |-> NoTime, priority |-> MEDIUM,
     tags |-> <<>>, due_date |-> NoDate, notification_sent |-> FALSE,
     is_recurring |-> FALSE, recurrence_pattern |-> None,
     recurrence_end_date |-> NoDate, parent_task_id |-> NoId]

\* TaskRepository.create that leaves priority at its column default
RepositoryCreateDefaultPriority(user_id, task_data, now) ==
    [TaskDefaults(now) EXCEPT !.user_id = user_id,
                              !.title = Strip(task_data.title),
                              !.description = Strip(task_data.description),
                              !.due_date = task_data.due_date,
                              !.tags = task_data.tags]

\* TaskRepository.create that files every row under one fixed user
RepositoryCreateFirstUser(user_id, task_data, now) ==
    [TaskDefaults(now) EXCEPT !.user_id = "u1",
                              !.title = Strip(task_data.title),
                              !.description = Strip(task_data.description),
                              !.priority = task_data.priority,
                              !.due_date = task_data.due_date,
                              !.tags = task_data.tags]

\* TaskRepository.create: the row it adds.  Only these six columns are
\* assigned; the others keep their defaults.
RepositoryCreate(user_id, task_data, now) ==
    [TaskDefaults(now) EXCEPT !.user_id = user_id,
                              !.title = Strip(task_data.title),
                              !.description = Strip(task_data.description),
                              !.priority = task_data.priority,
                              !.due_date = task_data.due_date,
                              !.tags = task_data.tags]

\* get_by_id without the user_id condition of its WHERE clause
GetByIdAnyOwner(store, user_id, task_id) ==
    IF task_id \in DOMAIN store THEN store[task_id] ELSE NoRow

\* TaskRepository.get_by_id: the row with that id, if this user owns it
GetById(store, user_id, task_id) ==
    IF task_id \in DOMAIN store /\ store[task_id].user_id = user_id
    THEN store[task_id] ELSE NoRow

\* a write that leaves only the written row in the table
PutAlone(store, task_id, row) == [i \in {task_id} |-> row]

\* the store with row task_id written
Put(store, task_id, row) ==
    [i \in DOMAIN store \cup {task_id} |-> IF i = task_id THEN row ELSE store[i]]

(***************************************************************************)
(* complete_task (task_service.py:282-343) in the session of its request   *)
(* (db/session.py): the writes are flushed inside one transaction and      *)
(* become durable at session.commit(); an exception or an aborted request  *)
(* rolls the transaction back.                                             *)
(***************************************************************************)
Idle == [pc |-> "idle"]

InFlight == req.pc # "idle"

\* the UPDATE flushed by a request in flight holds the row's lock
Locked(task_id) == InFlight /\ req.task_id = task_id

\* session.flush() as autocommit: the flushed row is durable at once
FlushedAutocommit(store, task_id, row) == Put(store, task_id, row)

\* the committed store after session.add(task); session.flush(): the UPDATE
\* is sent inside the open transaction and nothing is committed yet
Flushed(store, task_id, row) == store

\* the test of task_service.py:309 without its is_recurring operand
IsRecurringByPattern(task) ==
    task.recurrence_pattern # None /\ task.due_date # NoDate

\* task_service.py:309, the test that stops a non-recurring completion
IsRecurring(task) ==
    task.is_recurring /\ task.recurrence_pattern # None /\ task.due_date # NoDate

\* task_service.py:325-338, the TaskCreate built from the completed task
NextInstanceData(task, next_due_date) ==
    TaskCreate(task.title, task.description, task.priority, task.tags,
               next_due_date, task.is_recurring, task.recurrence_pattern,
               IF task.recurrence_end_date # NoDate
               THEN DateOf(CombineMin(task.recurrence_end_date)) ELSE NoDate,
               req.task_id)

\* task_service.py:297-306: load the task, mark it complete, flush
CompleteBegin(user_id, task_id) ==
    /\ ~InFlight
    /\ clock < MaxClock
    /\ LET task == GetById(db, user_id, task_id)
       IN  IF task = NoRow
           THEN /\ ret' = [op |-> "complete", status |-> "not_found",
                           user_id |-> user_id, task_id |-> task_id,
                           completed_task |-> NoRow, next_instance |-> NoRow]
                /\ UNCHANGED <<db, nextId, clock, req, gen>>
           ELSE LET marked == [task EXCEPT !.completed = TRUE,
                                           !.updated_at = clock + 1]
                IN  /\ req' = [pc |-> "flushed", user_id |-> user_id,
                               task_id |-> task_id, task |-> marked,
                               next_id |-> NoId, next |-> NoRow]
                    /\ db' = Flushed(db, task_id, marked)
                    /\ clock' = clock + 1
                    /\ UNCHANGED <<nextId, gen, ret>>
    /\ UNCHANGED <<calc, qry, limiter, calls>>

\* task_service.py:308-311 and 319-322: nothing to generate, commit
CompleteReturnEarly ==
    /\ req.pc = "flushed"
    /\ \/ ~IsRecurring(req.task)
       \/ /\ IsRecurring(req.task)
          /\ CalculateNextDueDate(req.task.due_date,
                                  req.task.recurrence_pattern) # InvalidPattern
          /\ ~ShouldGenerateNextInstance(
                 req.task.recurrence_end_date,
                 CalculateNextDueDate(req.task.due_date,
                                      req.task.recurrence_pattern))
    /\ db' = Put(db, req.task_id, req.task)
    /\ ret' = [op |-> "complete", status |-> "ok", user_id |-> req.user_id,
               task_id |-> req.task_id, completed_task |-> req.task,
               next_instance |-> NoRow]
    /\ req' = Idle
    /\ UNCHANGED <<nextId, clock, gen, calc, qry, limiter, calls>>

\* task_service.py:313-340: compute the next due date and insert the next
\* instance (repository.create flushes the INSERT, which draws the id)
CompleteCreate ==
    /\ req.pc = "flushed"
    /\ IsRecurring(req.task)
    /\ nextId <= MaxId
    /\ LET next_due_date == CalculateNextDueDate(req.task.due_date,
                                                 req.task.recurrence_pattern)
           data == NextInstanceData(req.task, next_due_date)
       IN  /\ next_due_date # InvalidPattern
           /\ ShouldGenerateNextInstance(req.task.recurrence_end_date,
                                         next_due_date)
           /\ data # ValidationError
           /\ req' = [req EXCEPT !.pc = "created", !.next_id = nextId,
                          !.next = RepositoryCreate(req.user_id, data, clock)]
    /\ nextId' = nextId + 1
    /\ UNCHANGED <<db, clock, gen, ret, calc, qry, limiter, calls>>

\* task_service.py:341-343: commit the completion and the next instance
CompleteCommit ==
    /\ req.pc = "created"
    /\ db' = Put(Put(db, req.task_id, req.task), req.next_id, req.next)
    /\ gen' = gen \cup {[id |-> req.next_id, origin |-> req.task_id]}
    /\ ret' = [op |-> "complete", status |-> "ok", user_id |-> req.user_id,
               task_id |-> req.task_id, completed_task |-> req.task,
               next_instance |-> req.next]
    /\ req' = Idle
    /\ UNCHANGED <<nextId, clock, calc, qry, limiter, calls>>

\* task_service.py:313-317 with 248-249, db/session.py:24-26:
\* calculate_next_due_date raises ValueError after the flush; the exception
\* leaves complete_task and the handler, and get_session rolls back
CompleteRaise ==
    /\ req.pc = "flushed"
    /\ IsRecurring(req.task)
    /\ CalculateNextDueDate(req.task.due_date,
                            req.task.recurrence_pattern) = InvalidPattern
    /\ ret' = [op |-> "complete", status |-> "error", error |-> "ValueError",
               user_id |-> req.user_id, task_id |-> req.task_id,
               completed_task |-> NoRow, next_instance |-> NoRow]
    /\ req' = Idle
    /\ UNCHANGED <<db, nextId, clock, gen, calc, qry, limiter, calls>>

\* db/session.py:24-26: a store call fails or the request is aborted before
\* the commit; the transaction is rolled back (the drawn id is not reused)
CompleteFail ==
    /\ InFlight
    /\ ret' = [op |-> "complete", status |-> "error", user_id |-> req.user_id,
               task_id |-> req.task_id, completed_task |-> NoRow,
               next_instance |-> NoRow]
    /\ req' = Idle
    /\ UNCHANGED <<db, nextId, clock, gen, calc, qry, limiter, calls>>

(***************************************************************************)
(* The other handlers of api/tasks.py.  Each runs in one transaction that  *)
(* get_session commits when the handler returns; a handler that writes a   *)
(* row locked by the request in flight waits for it.                       *)
(***************************************************************************)
D1 == [y |-> 2026, m |-> 1, d |-> 31, s |-> 32400, u |-> 0]

D2 == [y |-> 2026, m |-> 2, d |-> 21, s |-> 86399, u |-> 999999]

D3 == [y |-> 2026, m |-> 2, d |-> 28, s |-> 0, u |-> 0]

\* request bodies of POST /: a task asking for recurrence with padded title
\* and duplicate tags, a blank title, a recurrence without pattern
CreateInputs ==
    { [title |-> <<" ", "b">>, description |-> <<"d", " ">>, priority |-> LOW,
       tags |-> <<"w", "W">>, due_date |-> D1, is_recurring |-> TRUE,
       recurrence_pattern |-> DAILY, recurrence_end_date |-> NoDate],
      [title |-> <<" ">>, description |-> <<>>, priority |-> MEDIUM,
       tags |-> <<>>, due_date |-> NoDate, is_recurring |-> FALSE,
       recurrence_pattern |-> None, recurrence_end_date |-> NoDate],
      [title |-> <<"a">>, description |-> <<>>, priority |-> MEDIUM,
       tags |-> <<>>, due_date |-> D1, is_recurring |-> TRUE,
       recurrence_pattern |-> None, recurrence_end_date |-> NoDate] }

\* api/tasks.py:156-168, TaskService.create_task, TaskRepository.create
CreateTask(user_id, body) ==
    /\ clock < MaxClock
    /\ LET task_data == TaskCreate(body.title, body.description, body.priority,
                                   body.tags, body.due_date, body.is_recurring,
                                   body.recurrence_pattern,
                                   body.recurrence_end_date, NoId)
       IN  IF task_data = ValidationError \/ Strip(body.title) = <<>>
           THEN UNCHANGED <<db, nextId, clock>>
           ELSE /\ nextId <= MaxId
                /\ db' = Put(db, nextId,
                             RepositoryCreate(user_id, task_data, clock + 1))
                /\ nextId' = nextId + 1
                /\ clock' = clock + 1
    /\ UNCHANGED <<req, gen, ret, calc, qry, limiter, calls>>

\* request bodies of PATCH /{task_id}: only the fields that are not None
UpdateInputs ==
    { [title |-> <<"c", " ">>, priority |-> LOW, tags |-> <<"h", "h">>],
      [due_date |-> D3],
      [title |-> <<" ">>] }

Given(body, field) == field \in DOMAIN body

\* a due date parsed from a string with an offset ("...T00:00:00Z"): the
\* datetime carries tzinfo; one parsed without offset is naive
Aware(dt) == dt @@ [tz |-> "UTC"]

\* the value the column due_date (DateTime without time zone) holds after
\* the flush and gives back on refresh: the wall time, naive (session time
\* zone UTC)
AsStored(dt) ==
    IF dt = NoDate THEN NoDate ELSE [n \in {"y", "m", "d", "s", "u"} |-> dt[n]]

\* TaskRepository.update that never touches notification_sent
RepositoryUpdateKeepsSent(task, body, now) ==
    LET t1 == IF Given(body, "title")
              THEN [task EXCEPT !.title = Strip(body.title)] ELSE task
        t2 == IF Given(body, "description")
              THEN [t1 EXCEPT !.description = Strip(body.description)] ELSE t1
        t3 == IF Given(body, "priority")
              THEN [t2 EXCEPT !.priority = body.priority] ELSE t2
        t4 == IF Given(body, "due_date")
              THEN [t3 EXCEPT !.due_date = AsStored(body.due_date)] ELSE t3
        t5 == IF Given(body, "tags")
              THEN [t4 EXCEPT !.tags = ValidateTags(body.tags).tags] ELSE t4
    IN  [t5 EXCEPT !.updated_at = now]

\* TaskRepository.update: the row after the assignments of lines 128-145.
\* Line 136 compares the stored, naive due date with the one of the body; a
\* naive and an aware datetime are never equal.
RepositoryUpdate(task, body, now) ==
    LET t1 == IF Given(body, "title")
              THEN [task EXCEPT !.title = Strip(body.title)] ELSE task
        t2 == IF Given(body, "description")
              THEN [t1 EXCEPT !.description = Strip(body.description)] ELSE t1
        t3 == IF Given(body, "priority")
              THEN [t2 EXCEPT !.priority = body.priority] ELSE t2
        t4 == IF Given(body, "due_date")
              THEN [t3 EXCEPT !.notification_sent =
                                 IF t3.due_date # body.due_date
                                 THEN FALSE ELSE t3.notification_sent,
                              !.due_date = AsStored(body.due_date)]
              ELSE t3
        t5 == IF Given(body, "tags")
              THEN [t4 EXCEPT !.tags = ValidateTags(body.tags).tags] ELSE t4
    IN  [t5 EXCEPT !.updated_at = now]

\* api/tasks.py:192-212, TaskService.update_task, TaskRepository.update
UpdateTask(user_id, task_id, body) ==
    /\ clock < MaxClock
    /\ ~Locked(task_id)
    /\ LET task == GetById(db, user_id, task_id)
           rejected == \/ Given(body, "tags") /\ ~ValidateTags(body.tags).ok
                       \/ Given(body, "title") /\ Strip(body.title) = <<>>
       IN  IF rejected
           THEN UNCHANGED <<db, clock>>
           ELSE IF task = NoRow
           THEN UNCHANGED <<db, clock>>
           ELSE /\ db' = Put(db, task_id, RepositoryUpdate(task, body, clock + 1))
                /\ clock' = clock + 1
    /\ UNCHANGED <<nextId, req, gen, ret, calc, qry, limiter, calls>>

\* a toggle that marks the task completed whatever it was
ToggleTaskSetsCompleted(user_id, task_id) ==
    /\ clock < MaxClock
    /\ ~Locked(task_id)
    /\ LET task == GetById(db, user_id, task_id)
       IN  IF task = NoRow
           THEN UNCHANGED <<db, clock>>
           ELSE /\ db' = Put(db, task_id,
                             [task EXCEPT !.completed = TRUE,
                                          !.updated_at = clock + 1])
                /\ clock' = clock + 1
    /\ UNCHANGED <<nextId, req, gen, ret, calc, qry, limiter, calls>>

\* api/tasks.py:235-254, TaskRepository.toggle
ToggleTask(user_id, task_id) ==
    /\ clock < MaxClock
    /\ ~Locked(task_id)
    /\ LET task == GetById(db, user_id, task_id)
       IN  IF task = NoRow
           THEN UNCHANGED <<db, clock>>
           ELSE /\ db' = Put(db, task_id,
                             [task EXCEPT !.completed = ~task.completed,
                                          !.updated_at = clock + 1])
                /\ clock' = clock + 1
    /\ UNCHANGED <<nextId, req, gen, ret, calc, qry, limiter, calls>>

\* api/tasks.py:215-232, TaskRepository.delete; the foreign key of
\* parent_task_id is ON DELETE SET NULL
DeleteTask(user_id, task_id) ==
    /\ clock < MaxClock
    /\ ~Locked(task_id)
    /\ LET task == GetById(db, user_id, task_id)
       IN  IF task = NoRow
           THEN UNCHANGED <<db, clock>>
           ELSE /\ clock' = clock + 1
                /\ db' = [i \in DOMAIN db \ {task_id} |->
                                 IF db[i].parent_task_id = task_id
                                 THEN [db[i] EXCEPT !.parent_task_id = NoId]
                                 ELSE db[i]]
    /\ UNCHANGED <<nextId, req, gen, ret, calc, qry, limiter, calls>>

\* api/tasks.py:293-324
MarkNotificationSent(user_id, task_id) ==
    /\ clock < MaxClock
    /\ ~Locked(task_id)
    /\ LET task == GetById(db, user_id, task_id)
       IN  IF task = NoRow
           THEN UNCHANGED <<db, clock>>
           ELSE /\ clock' = clock + 1
                /\ db' = Put(db, task_id,
                             [task EXCEPT !.notification_sent = TRUE])
    /\ UNCHANGED <<nextId, req, gen, ret, calc, qry, limiter, calls>>

(***************************************************************************)
(* Spec: the store starts with one recurring or plain task.  No handler    *)
(* assigns the recurrence columns, so the rows that carry them are the     *)
(* ones the table holds when the service starts; they satisfy what         *)
(* TaskCreate.validate_recurrence requires of a recurring task.            *)
(***************************************************************************)
\* recurrence settings of the first row: (is_recurring, pattern, due, end)
Recurrences ==
    { <<FALSE, None, NoDate, NoDate>>,
      <<TRUE, DAILY, D1, NoDate>>,
      <<TRUE, MONTHLY, D1, [y |-> 2026, m |-> 2, d |-> 15]>>,
      <<TRUE, MONTHLY, D1, [y |-> 2026, m |-> 3, d |-> 1]>>,
      <<TRUE, WEEKLY, D2, [y |-> 2026, m |-> 2, d |-> 28]>>,
      <<TRUE, DAILY, D3, [y |-> 2026, m |-> 2, d |-> 28]>> }

FirstRow(user_id, r) ==
    [TaskDefaults(1) EXCEPT !.user_id = user_id, !.title = <<"a">>,
                            !.description = <<"d">>, !.priority = HIGH,
                            !.tags = <<"w", "h">>, !.due_date = r[3],
                            !.is_recurring = r[1], !.recurrence_pattern = r[2],
                            !.recurrence_end_date = r[4]]

Init ==
    /\ \E user_id \in Users, r \in Recurrences :
          db = Put(<<>>, 1, FirstRow(user_id, r))
    /\ nextId = 2
    /\ clock = 1
    /\ req = Idle
    /\ gen = {}
    /\ ret = [op |-> "none"]
    /\ qry = [pc |-> "idle"]
    /\ calc = CalcIdle
    /\ LimiterUnused

Next ==
    \/ \E user_id \in Users, task_id \in 1..MaxId : CompleteBegin(user_id, task_id)
    \/ CompleteReturnEarly
    \/ CompleteCreate
    \/ CompleteCommit
    \/ CompleteFail
    \/ \E user_id \in Users, body \in CreateInputs : CreateTask(user_id, body)
    \/ \E user_id \in Users, task_id \in 1..MaxId, body \in UpdateInputs :
          UpdateTask(user_id, task_id, body)
    \/ \E user_id \in Users, task_id \in 1..MaxId : ToggleTask(user_id, task_id)
    \/ \E user_id \in Users, task_id \in 1..MaxId : DeleteTask(user_id, task_id)
    \/ \E user_id \in Users, task_id \in 1..MaxId :
          MarkNotificationSent(user_id, task_id)

Spec == Init /\ [][Next]_vars

(***************************************************************************)
(* Claims about complete_task (checked under Spec).  A step commits a      *)
(* next instance when it adds a record to gen; origin and instance are     *)
(* then read in the store before and after that step.                      *)
(***************************************************************************)
\* the step commits the request in flight
Commits == InFlight /\ ~InFlight' /\ ret'.status = "ok"

\* the step ends the request in flight without a commit
RollsBack == InFlight /\ ~InFlight' /\ ret'.status = "error"

\* a successor of this task is due: it recurs and its next due date is
\* within the end date
SuccessorDue(task) ==
    /\ IsRecurring(task)
    /\ ShouldGenerateNextInstance(
           task.recurrence_end_date,
           CalculateNextDueDate(task.due_date, task.recurrence_pattern))

\* C1: however often complete_task is called on a recurring task, the tasks
\* created with it as their origin number exactly one: the second and later
\* calls create no new row.
C1_OneSuccessorPerOrigin ==
    \A t \in 1..MaxId : Cardinality({g \in gen : g.origin = t}) <= 1

\* C2: complete_task on a task whose completed flag is already true changes
\* nothing in the store, updated_at included, and returns the stored task.
C2_CompletedUnchanged ==
    [][(Commits /\ db[req.task_id].completed) =>
          /\ db' = db
          /\ ret'.completed_task = db[req.task_id]]_vars

\* C3: the completion is atomic.  Until the commit the store shows neither the
\* completed flag nor the next instance; a rollback leaves the store as it
\* was; the commit records the completed flag, and the next instance exactly
\* when one was due, in the same step.
C3_AtomicCompletion ==
    [][/\ (InFlight /\ ~Commits) =>
              /\ db'[req.task_id] = db[req.task_id]
              /\ gen' = gen
       /\ RollsBack => db' = db
       /\ (~InFlight /\ InFlight') => (db' = db /\ gen' = gen)
       /\ Commits =>
              /\ db'[req.task_id].completed
              /\ SuccessorDue(db[req.task_id]) <=>
                    (\E i \in DOMAIN db' \ DOMAIN db :
                        [id |-> i, origin |-> req.task_id] \in gen')
              /\ \A g \in gen' \ gen :
                    g.id \in DOMAIN db' /\ db'[g.origin].completed]_vars

\* C3 witness: a request was rolled back after its completed flag and its next
\* instance were flushed, and the task is still stored as not completed
C3_RolledBackAfterInsert ==
    /\ ret.op = "complete"
    /\ ret.status = "error"
    /\ nextId > 2
    /\ DOMAIN db = {1}
    /\ ~db[1].completed
    /\ SuccessorDue(db[1])

\* C3 witness of the commit: completion and next instance are both stored
C3_BothCommitted ==
    /\ ret.op = "complete"
    /\ ret.status = "ok"
    /\ \E g \in gen : g.id \in DOMAIN db /\ g.origin \in DOMAIN db
                      /\ db[g.origin].completed

C8_RecurrenceCopied ==
    [][\A g \in gen' \ gen :
          /\ db'[g.id].is_recurring = db[g.origin].is_recurring
          /\ db'[g.id].recurrence_pattern = db[g.origin].recurrence_pattern
          /\ db'[g.id].recurrence_end_date = db[g.origin].recurrence_end_date]_vars

\* C9: the stored next instance has due_date = the computed next due date,
\* parent_task_id = the origin's id, completed = false and
\* notification_sent = false.
C9_NextInstanceFields ==
    [][\A g \in gen' \ gen :
          /\ db'[g.id].due_date =
                CalculateNextDueDate(db[g.origin].due_date,
                                     db[g.origin].recurrence_pattern)
          /\ db'[g.id].parent_task_id = g.origin
          /\ ~db'[g.id].completed
          /\ ~db'[g.id].notification_sent]_vars

\* C10: the stored next instance has the title, description, priority and tags
\* of its origin at the time of completion.
C10_ContentCopied ==
    [][\A g \in gen' \ gen :
          /\ db'[g.id].title = db[g.origin].title
          /\ db'[g.id].description = db[g.origin].description
          /\ db'[g.id].priority = db[g.origin].priority
          /\ db'[g.id].tags = db[g.origin].tags]_vars

\* C10 witness: an instance generated from an origin whose title, priority and
\* tags had been edited before the completion
C10_CopiedFromEditedOrigin ==
    \E g \in gen :
        /\ g.id \in DOMAIN db /\ g.origin \in DOMAIN db
        /\ db[g.origin].title = <<"c">>
        /\ db[g.id].title = <<"c">>
        /\ db[g.id].priority = LOW
        /\ db[g.id].tags = <<"h">>

(***************************************************************************)
(* get_all_with_filters (task_repository.py:195-324): the WHERE clause it  *)
(* builds, the ORDER BY, and OFFSET/LIMIT.  A filter that was not supplied *)
(* (None) is a field the filter record does not have.  SQL comparisons     *)
(* with a NULL due_date are not true.                                      *)
(***************************************************************************)
Range(q) == {q[i] : i \in 1..Len(q)}

RECURSIVE Like(_, _)
\* text LIKE pattern, compared in lower case as ILIKE does: % stands for any
\* run of characters and _ for any one character
Like(pattern, text) ==
    IF pattern = <<>> THEN text = <<>>
    ELSE IF Head(pattern) = "%"
    THEN Like(Tail(pattern), text) \/ (text # <<>> /\ Like(pattern, Tail(text)))
    ELSE /\ text # <<>>
         /\ Head(pattern) = "_" \/ Lower(Head(pattern)) = Lower(Head(text))
         /\ Like(Tail(pattern), Tail(text))

\* line 236: search_term = f"%{search}%"
SearchTerm(search) == <<"%">> \o search \o <<"%">>

\* the tag condition as "the task carries every given tag"
TagsContainAll(task_tags, tags) == Range(tags) \subseteq Range(task_tags)

\* lines 255-257: Task.tags.overlap(tags), the array operator &&
TagsOverlap(task_tags, tags) == Range(task_tags) \cap Range(tags) # {}

\* a < b on datetimes
DtLess(a, b) == ~DtLeq(b, a)

\* the overdue condition whose false branch forgets the tasks without due date
OverdueClauseNoNull(task, is_overdue, now) ==
    IF is_overdue
    THEN task.due_date # NoDate /\ DtLess(task.due_date, now) /\ ~task.completed
    ELSE \/ task.due_date # NoDate /\ DtLeq(now, task.due_date)
         \/ task.completed

\* lines 266-282: the condition added for is_overdue
OverdueClause(task, is_overdue, now) ==
    IF is_overdue
    THEN task.due_date # NoDate /\ DtLess(task.due_date, now) /\ ~task.completed
    ELSE \/ task.due_date # NoDate /\ DtLeq(now, task.due_date)
         \/ task.due_date = NoDate
         \/ task.completed

\* the supplied filters joined with OR instead of AND
WhereAnyFilter(task, user_id, f, now) ==
    /\ task.user_id = user_id
    /\ \/ Given(f, "priority") /\ task.priority \in Range(f.priority)
       \/ Given(f, "tags") /\ TagsOverlap(task.tags, f.tags)
       \/ Given(f, "completed") /\ task.completed = f.completed
       \/ DOMAIN f \cap {"priority", "tags", "completed"} = {}

\* lines 231-282: whether the row satisfies the WHERE clause built for f
Where(task, user_id, f, now) ==
    /\ task.user_id = user_id
    /\ (Given(f, "search") /\ f.search # <<>>) =>
          \/ Like(SearchTerm(f.search), task.title)
          \/ Like(SearchTerm(f.search), task.description)
    /\ Given(f, "completed") => task.completed = f.completed
    /\ (Given(f, "priority") /\ f.priority # <<>>) =>
          task.priority \in Range(f.priority)
    /\ (Given(f, "tags") /\ f.tags # <<>>) => TagsOverlap(task.tags, f.tags)
    /\ Given(f, "due_date_from") =>
          task.due_date # NoDate /\ DtLeq(f.due_date_from, task.due_date)
    /\ Given(f, "due_date_to") =>
          task.due_date # NoDate /\ DtLeq(task.due_date, f.due_date_to)
    /\ Given(f, "is_overdue") => OverdueClause(task, f.is_overdue, now)

\* the rows selected when the WHERE clause is not tied to the requesting user
SelectedAnyOwner(store, user_id, f, now) ==
    {i \in DOMAIN store : \E u \in Users : Where(store[i], u, f, now)}

\* the ids of the rows the query selects
Selected(store, user_id, f, now) ==
    {i \in DOMAIN store : Where(store[i], user_id, f, now)}

\* line 251: TaskPriority(p) raises ValueError for a string that is no priority
PrioritiesValid(f) ==
    Given(f, "priority") => Range(f.priority) \subseteq TaskPriority

\* priorities compared by the spelling of their names: HIGH, LOW, MEDIUM
PriorityRankByName(p) == IF p = HIGH THEN 1 ELSE IF p = LOW THEN 2 ELSE 3

\* position of a priority in the database enum taskpriority
\* ('HIGH', 'MEDIUM', 'LOW'), which is what ORDER BY priority compares
PriorityRank(p) == IF p = HIGH THEN 1 ELSE IF p = MEDIUM THEN 2 ELSE 3

\* characters in code point order
Alphabet == <<" ", "W", "_", "a", "b", "c", "d", "h", "w">>

CharRank(c) == CHOOSE k \in 1..Len(Alphabet) : Alphabet[k] = c

RECURSIVE TextLess(_, _)
\* a < b on text
TextLess(a, b) ==
    IF b = <<>> THEN FALSE
    ELSE IF a = <<>> THEN TRUE
    ELSE IF Head(a) = Head(b) THEN TextLess(Tail(a), Tail(b))
    ELSE CharRank(Head(a)) < CharRank(Head(b))

\* ORDER BY without NULLS LAST: a NULL due date counts as larger than every
\* date, so that descending order puts the rows without due date first
BeforeNullsLargest(a, b, sort_by, sort_order) ==
    IF sort_by = "due_date"
    THEN IF sort_order = "asc"
         THEN \/ a.due_date # NoDate /\ b.due_date = NoDate
              \/ /\ a.due_date # NoDate /\ b.due_date # NoDate
                 /\ DtLess(a.due_date, b.due_date)
         ELSE \/ a.due_date = NoDate /\ b.due_date # NoDate
              \/ /\ a.due_date # NoDate /\ b.due_date # NoDate
                 /\ DtLess(b.due_date, a.due_date)
    ELSE IF sort_by = "priority"
    THEN IF sort_order = "asc"
         THEN PriorityRank(a.priority) < PriorityRank(b.priority)
         ELSE PriorityRank(b.priority) < PriorityRank(a.priority)
    ELSE IF sort_by = "title"
    THEN IF sort_order = "asc" THEN TextLess(a.title, b.title)
                               ELSE TextLess(b.title, a.title)
    ELSE IF sort_order = "asc" THEN a.created_at < b.created_at
                               ELSE b.created_at < a.created_at

\* lines 288-315: whether ORDER BY puts row a strictly before row b
Before(a, b, sort_by, sort_order) ==
    IF sort_by = "due_date"
    THEN \/ a.due_date # NoDate /\ b.due_date = NoDate
         \/ /\ a.due_date # NoDate /\ b.due_date # NoDate
            /\ IF sort_order = "asc" THEN DtLess(a.due_date, b.due_date)
                                     ELSE DtLess(b.due_date, a.due_date)
    ELSE IF sort_by = "priority"
    THEN IF sort_order = "asc"
         THEN PriorityRank(a.priority) < PriorityRank(b.priority)
         ELSE PriorityRank(b.priority) < PriorityRank(a.priority)
    ELSE IF sort_by = "title"
    THEN IF sort_order = "asc" THEN TextLess(a.title, b.title)
                               ELSE TextLess(b.title, a.title)
    ELSE IF sort_order = "asc" THEN a.created_at < b.created_at
                               ELSE b.created_at < a.created_at

\* the orders in which the database may return the selected rows: every
\* arrangement that respects ORDER BY; rows with equal sort keys come in any
\* order, which may differ from one statement to the next
Orders(store, ids, sort_by, sort_order) ==
    {o \in [1..Cardinality(ids) -> ids] :
        /\ \A i, j \in 1..Cardinality(ids) : i # j => o[i] # o[j]
        /\ \A i, j \in 1..Cardinality(ids) :
              i < j => ~Before(store[o[j]], store[o[i]], sort_by, sort_order)}

\* line 318: OFFSET offset LIMIT limit
Window(o, offset, limit) ==
    IF offset >= Len(o) THEN <<>>
    ELSE SubSeq(o, offset + 1, Min(offset + limit, Len(o)))

QryIdle == [pc |-> "idle"]

\* lines 231-286 of one call: build the query and run the count statement.
\* A first call starts at f.offset; the call after a page asks for the next
\* window.
ListCount(user_id, f, now) ==
    /\ qry.pc \in {"idle", "paged"}
    /\ qry' = IF ~PrioritiesValid(f)
              THEN [pc |-> "error", user_id |-> user_id, f |-> f, now |-> now]
              ELSE [pc |-> "counted", user_id |-> user_id, f |-> f, now |-> now,
                    offset |-> IF qry.pc = "idle" THEN f.offset
                               ELSE qry.offset + f.limit,
                    selected |-> Selected(db, user_id, f, now),
                    total |-> Cardinality(Selected(db, user_id, f, now)),
                    page |-> <<>>,
                    pages |-> IF qry.pc = "idle" THEN <<>> ELSE qry.pages]
    /\ UNCHANGED <<db, nextId, clock, req, gen, ret, calc, limiter, calls>>

\* lines 288-324 of the same call: run the page statement on the store as it
\* is now and return (tasks, total_count)
ListPage ==
    /\ qry.pc = "counted"
    /\ \E o \in Orders(db, Selected(db, qry.user_id, qry.f, qry.now),
                       qry.f.sort_by, qry.f.sort_order) :
          LET tasks == Window(o, qry.offset, qry.f.limit)
          IN  qry' = [qry EXCEPT !.pc = "paged", !.page = tasks,
                                 !.pages = Append(qry.pages, tasks)]
    /\ UNCHANGED <<db, nextId, clock, req, gen, ret, calc, limiter, calls>>

(***************************************************************************)
(* SpecList: get_all_with_filters on a store that does not change.  The    *)
(* table holds any subset of five rows; the request is drawn from every    *)
(* combination of the filter options below, and from requests that page    *)
(* through the result one to three rows at a time under each sort key.     *)
(***************************************************************************)
\* rows 1-3 and 5 belong to u1 and row 4 to u2; rows 1 and 2 have the same
\* priority, rows 2 and 3 the same title; u1 has a row of every priority
TaskRows ==
    << [TaskDefaults(1) EXCEPT !.user_id = "u1", !.title = <<"w", "h">>,
                               !.completed = TRUE, !.priority = HIGH,
                               !.tags = <<"w", "h">>, !.due_date = D1],
       [TaskDefaults(2) EXCEPT !.user_id = "u1", !.title = <<"h">>,
                               !.description = <<"W">>, !.priority = HIGH,
                               !.tags = <<"h">>],
       [TaskDefaults(3) EXCEPT !.user_id = "u1", !.title = <<"h">>,
                               !.priority = LOW, !.due_date = D3],
       [TaskDefaults(4) EXCEPT !.user_id = "u2", !.title = <<"w">>,
                               !.tags = <<"w">>, !.due_date = D2],
       [TaskDefaults(5) EXCEPT !.user_id = "u1", !.title = <<"a">>,
                               !.priority = MEDIUM, !.tags = <<"w">>,
                               !.due_date = D2] >>

Tables == {[i \in ids |-> TaskRows[i]] : ids \in SUBSET (1..Len(TaskRows))}

\* the defaults of the parameters of list_tasks (api/tasks.py:38-55)
ListDefaults ==
    [sort_by |-> "created_at", sort_order |-> "desc", offset |-> 0,
     limit |-> 100]

\* a query parameter that is left out, or has one of the given values
Optional(name, values) ==
    {[n \in {} |-> 0]} \cup {[n \in {name} |-> v] : v \in values}

\* datetime.now() at the time of the call
Nows == {D2, [y |-> 2026, m |-> 3, d |-> 1, s |-> 0, u |-> 0]}

\* lines 266-267: now is read only when is_overdue is given
NowsFor(f) == IF Given(f, "is_overdue") THEN Nows ELSE {NoDate}

FilterCombinations ==
    {ListDefaults @@ a @@ b @@ c @@ d @@ e @@ g @@ h :
        a \in Optional("search", {<<"W">>, <<"_">>}),
        b \in Optional("completed", BOOLEAN),
        c \in Optional("priority", {<<HIGH>>, <<LOW, MEDIUM>>}),
        d \in Optional("tags", {<<"w", "x">>, <<"h", "w">>}),
        e \in Optional("due_date_from", {D2}),
        g \in Optional("due_date_to", {D2}),
        h \in Optional("is_overdue", BOOLEAN)}

\* requests with an empty search text, priority list or tag list, and one
\* with a priority that does not exist
EmptyFilters ==
    {ListDefaults @@ a : a \in {[search |-> <<>>], [priority |-> <<>>],
                                [tags |-> <<>>], [priority |-> <<"urgent">>]}}

\* requests for one window of the result under each sort key and direction
PagedFilters ==
    {[sort_by |-> k, sort_order |-> o, offset |-> 0, limit |-> n] @@ b :
        k \in {"created_at", "due_date", "priority", "title"},
        o \in {"asc", "desc"}, n \in {1, 2, 3},
        b \in Optional("completed", {FALSE})}

Filters == FilterCombinations \cup EmptyFilters \cup PagedFilters

InitList ==
    /\ db \in Tables
    /\ nextId = Len(TaskRows) + 1
    /\ clock = 1
    /\ req = Idle
    /\ gen = {}
    /\ ret = [op |-> "none"]
    /\ qry = QryIdle
    /\ calc = CalcIdle
    /\ LimiterUnused

\* the client of a list that has received a page asks for the next window
\* with the same parameters, until a page comes back empty
ListNextWindow ==
    /\ qry.pc = "paged"
    /\ qry.page # <<>>
    /\ ListCount(qry.user_id, qry.f, qry.now)

NextList ==
    \/ /\ qry.pc = "idle"
       /\ \E user_id \in Users, f \in Filters :
             \E now \in NowsFor(f) : ListCount(user_id, f, now)
    \/ ListPage
    \/ ListNextWindow

SpecList == InitList /\ [][NextList]_vars

(***************************************************************************)
(* SpecRows: the handlers of Spec on every kind of first row the tasks     *)
(* table can hold.  The recurrence columns are nullable and carry no CHECK *)
(* constraint (alembic b2392c4bb046), so a row may have is_recurring set   *)
(* without a pattern or a due date, or a pattern without is_recurring;     *)
(* task_service.py:309 tests for each of these.                            *)
(***************************************************************************)
RowKinds ==
    Recurrences \cup { <<FALSE, DAILY, D1, NoDate>>,
                       <<TRUE, None, D1, NoDate>>,
                       <<TRUE, DAILY, NoDate, NoDate>> }

InitRows ==
    /\ \E user_id \in Users, r \in RowKinds :
          db = Put(<<>>, 1, FirstRow(user_id, r))
    /\ nextId = 2
    /\ clock = 1
    /\ req = Idle
    /\ gen = {}
    /\ ret = [op |-> "none"]
    /\ qry = [pc |-> "idle"]
    /\ calc = CalcIdle
    /\ LimiterUnused

SpecRows == InitRows /\ [][Next]_vars

\* the task is not recurring, or has no recurrence_pattern, or no due_date
StopsAsNonRecurring(task) ==
    \/ ~task.is_recurring
    \/ task.recurrence_pattern = None
    \/ task.due_date = NoDate

\* C11: complete_task on a task that is not recurring, or lacks a
\* recurrence_pattern or a due_date, sets completed, returns (task, none) and
\* leaves the number of rows as it was.
C11_NonRecurringCompletes ==
    [][(Commits /\ StopsAsNonRecurring(db[req.task_id])) =>
          /\ db'[req.task_id].completed
          /\ ret'.completed_task = db'[req.task_id]
          /\ ret'.next_instance = NoRow
          /\ DOMAIN db' = DOMAIN db
          /\ gen' = gen /\ nextId' = nextId]_vars

\* C11 witness: a task with is_recurring set and no pattern was completed
\* and nothing was generated
C11_CompletedWithoutPattern ==
    /\ ret.op = "complete" /\ ret.status = "ok"
    /\ ret.completed_task.is_recurring
    /\ ret.completed_task.recurrence_pattern = None
    /\ ret.completed_task.completed
    /\ ret.next_instance = NoRow
    /\ DOMAIN db = {1}

\* the caller does not own a stored task with this id
AbsentOrUnowned(user_id, task_id) ==
    \/ task_id \notin DOMAIN db
    \/ db[task_id].user_id # user_id

\* C12: complete_task signals not-found exactly when no task has the id or
\* the task belongs to another owner, and then changes and creates no row.
C12_NotFoundChangesNothing ==
    [][\A user_id \in Users, task_id \in 1..MaxId :
          CompleteBegin(user_id, task_id) =>
              IF AbsentOrUnowned(user_id, task_id)
              THEN /\ ~InFlight'
                   /\ db' = db /\ nextId' = nextId /\ gen' = gen
                   /\ ret'.status = "not_found"
                   /\ ret'.completed_task = NoRow
                   /\ ret'.next_instance = NoRow
              ELSE InFlight' /\ ret' = ret]_vars

\* C12 witness: not-found was signalled for a task that exists and belongs
\* to another owner
C12_NotFoundForOtherOwner ==
    /\ ret.op = "complete" /\ ret.status = "not_found"
    /\ ret.task_id \in DOMAIN db
    /\ db[ret.task_id].user_id # ret.user_id

\* C14: completed is terminal for a row: no step takes a stored row from
\* completed = true to completed = false.
C14_CompletedIsTerminal ==
    [][\A i \in DOMAIN db \cap DOMAIN db' :
          db[i].completed => db'[i].completed]_vars

\* C15: a completion that generates a next instance leaves its origin in the
\* store with every field but completed and updated_at as it was, and leaves
\* every other row that existed as it was.
C15_OriginKept ==
    [][\A g \in gen' \ gen :
          /\ g.origin \in DOMAIN db'
          /\ db'[g.origin] =
                [db[g.origin] EXCEPT !.completed = TRUE,
                                     !.updated_at = db'[g.origin].updated_at]
          /\ \A i \in DOMAIN db \ {g.origin} :
                i \in DOMAIN db' /\ db'[i] = db[i]]_vars

\* C15 witness: a next instance was generated while a third row existed, and
\* the origin is still stored as a recurring task
C15_GeneratedBesideOtherRow ==
    \E g \in gen, i \in DOMAIN db :
        /\ i \notin {g.id, g.origin}
        /\ g.origin \in DOMAIN db /\ g.id \in DOMAIN db
        /\ db[g.origin].completed
        /\ db[g.origin].is_recurring
        /\ db[g.origin].recurrence_pattern # None

(***************************************************************************)
(* SpecPaged: the handlers of Spec running beside a list request.  The     *)
(* count statement and the page statement of get_all_with_filters are two  *)
(* statements of one transaction; the engine (db/engine.py) sets no        *)
(* isolation level, so each statement reads the rows committed when it     *)
(* starts, and other requests may commit between the two.                  *)
(***************************************************************************)
\* first row of SpecPaged: a daily task without end date
PagedRows == {<<TRUE, DAILY, D1, NoDate>>}

\* list request of SpecPaged: every task of the owner, in one page
ConcurrentFilters == {ListDefaults}

InitPaged ==
    /\ \E user_id \in Users, r \in PagedRows :
          db = Put(<<>>, 1, FirstRow(user_id, r))
    /\ nextId = 2
    /\ clock = 1
    /\ req = Idle
    /\ gen = {}
    /\ ret = [op |-> "none"]
    /\ qry = QryIdle
    /\ calc = CalcIdle
    /\ LimiterUnused

NextPaged ==
    \/ Next
    \/ /\ qry.pc = "idle"
       /\ \E user_id \in Users, f \in ConcurrentFilters :
             ListCount(user_id, f, NoDate)
    \/ ListPage

SpecPaged == InitPaged /\ [][NextPaged]_vars

\* the ids of the rows this user owns
OwnedBy(user_id) == {i \in DOMAIN db : db[i].user_id = user_id}

\* the step is a step of a request made by this user
ActsAs(user_id) ==
    \/ \E task_id \in 1..MaxId : CompleteBegin(user_id, task_id)
    \/ /\ InFlight /\ req.user_id = user_id
       /\ CompleteReturnEarly \/ CompleteCreate \/ CompleteCommit \/ CompleteFail
    \/ \E body \in CreateInputs : CreateTask(user_id, body)
    \/ \E task_id \in 1..MaxId, body \in UpdateInputs :
          UpdateTask(user_id, task_id, body)
    \/ \E task_id \in 1..MaxId :
          \/ ToggleTask(user_id, task_id)
          \/ DeleteTask(user_id, task_id)
          \/ MarkNotificationSent(user_id, task_id)
    \/ qry' # qry /\ qry'.user_id = user_id

\* the task a handler returned is none or belongs to this user
ReturnedTo(task, user_id) == task = NoRow \/ task.user_id = user_id

\* a request of one owner leaves the rows of every other owner as they are,
\* creates rows for its own owner only, and returns its own owner's tasks only
KeepsToOwnRows(user_id) ==
    /\ \A i \in DOMAIN db :
          db[i].user_id # user_id => i \in DOMAIN db' /\ db'[i] = db[i]
    /\ \A i \in DOMAIN db' \ DOMAIN db : db'[i].user_id = user_id
    /\ (ret' # ret /\ ret'.status # "not_found") =>
          /\ ReturnedTo(ret'.completed_task, user_id)
          /\ ReturnedTo(ret'.next_instance, user_id)
    /\ (qry' # qry /\ qry'.pc = "paged") =>
          \A k \in 1..Len(qry'.page) : db'[qry'.page[k]].user_id = user_id

\* what an owner's later requests depend on: the owner's rows, and the id the
\* next created task will get
ViewOf(user_id) ==
    [rows |-> [i \in OwnedBy(user_id) |-> db[i]], next_id |-> nextId]

\* C13 as stated: a request of owner A neither returns, creates, changes nor
\* deletes a task of another owner B, and what B observes afterwards is what
\* B would observe had A made no request.
C13_NoInterference ==
    [][\A a \in Users :
          \/ /\ KeepsToOwnRows(a)
             /\ \A b \in Users \ {a} : ViewOf(b)' = ViewOf(b)
          \/ ~ActsAs(a)]_vars

\* C13: a request of owner A neither returns, creates, changes nor deletes a
\* task of another owner B; B's rows are after it what they were before.
C13_OwnerIsolation ==
    [][\A a \in Users :
          \/ /\ KeepsToOwnRows(a)
             /\ \A b \in Users \ {a} : ViewOf(b)'.rows = ViewOf(b).rows
          \/ ~ActsAs(a)]_vars

\* C13 witness: both owners have rows, u1 has completed a recurring task of
\* its own and a list of u2 has returned a page
C13_BothOwnersActive ==
    /\ \E g \in gen : g.id \in DOMAIN db /\ db[g.id].user_id = "u1"
    /\ \E i \in DOMAIN db : db[i].user_id = "u2"
    /\ qry.pc = "paged" /\ qry.user_id = "u2" /\ qry.page # <<>>

\* C20: the page of a list call is consistent with its total whatever other
\* requests commit between the two statements: never more tasks than total,
\* and exactly total tasks for offset 0 and limit >= total.
C20_PageWithinTotal ==
    qry.pc = "paged" =>
        /\ Len(qry.page) <= qry.total
        /\ (qry.offset = 0 /\ qry.f.limit >= qry.total) =>
              Len(qry.page) = qry.total

(***************************************************************************)
(* Claims about get_all_with_filters (checked under SpecList).  The call   *)
(* in qry has run its count statement once qry.pc is "counted" or "paged". *)
(***************************************************************************)
Counted == qry.pc \in {"counted", "paged"}

\* the filter was supplied: present, and not an empty text or list
Supplied(f, name) ==
    /\ name \in DOMAIN f
    /\ name \in {"search", "priority", "tags"} => Len(f[name]) > 0

\* the request without one of its filters
Without(f, name) == [n \in DOMAIN f \ {name} |-> f[n]]

\* search occurs in text as a run of consecutive characters, letter case
\* ignored
ContainsText(text, search) ==
    \E k \in 0..(Len(text) - Len(search)) :
        \A j \in 1..Len(search) : Lower(text[k + j]) = Lower(search[j])

\* a is an earlier instant than b
Earlier(a, b) == StrictlyAfter(b, a)

\* due before now and not completed
IsOverdue(task, now) ==
    task.due_date # NoDate /\ Earlier(task.due_date, now) /\ ~task.completed

\* the task satisfies every supplied filter of the request
SatisfiesAll(task, f, now) ==
    /\ Supplied(f, "search") =>
          ContainsText(task.title, f.search)
              \/ ContainsText(task.description, f.search)
    /\ Supplied(f, "completed") => task.completed = f.completed
    /\ Supplied(f, "priority") =>
          \E k \in 1..Len(f.priority) : f.priority[k] = task.priority
    /\ Supplied(f, "tags") =>
          \E j \in 1..Len(task.tags), k \in 1..Len(f.tags) :
              task.tags[j] = f.tags[k]
    /\ Supplied(f, "due_date_from") =>
          task.due_date # NoDate /\ ~Earlier(task.due_date, f.due_date_from)
    /\ Supplied(f, "due_date_to") =>
          task.due_date # NoDate /\ ~Earlier(f.due_date_to, task.due_date)
    /\ Supplied(f, "is_overdue") => (f.is_overdue <=> IsOverdue(task, now))

\* C16: the tasks the query matches are exactly the requesting owner's tasks
\* that satisfy every supplied filter; a filter that is absent or empty
\* restricts nothing.
C16_ExactlyTheConjunction ==
    Counted =>
        qry.selected = {i \in OwnedBy(qry.user_id) :
                           SatisfiesAll(db[i], qry.f, qry.now)}

C18_OverduePartition ==
    (Counted /\ Supplied(qry.f, "is_overdue")) =>
        LET rest == Selected(db, qry.user_id, Without(qry.f, "is_overdue"),
                             qry.now)
            over == {i \in rest : IsOverdue(db[i], qry.now)}
            other == Selected(db, qry.user_id,
                              [qry.f EXCEPT !.is_overdue = ~qry.f.is_overdue],
                              qry.now)
        IN  /\ qry.selected = IF qry.f.is_overdue THEN over ELSE rest \ over
            /\ qry.selected \cap other = {}
            /\ qry.selected \cup other = rest
            /\ DOMAIN qry.f = DOMAIN ListDefaults \cup {"is_overdue"} =>
                  rest = OwnedBy(qry.user_id)

\* C18 witness: is_overdue=false alone matched a task without due date that
\* is not completed, and a task due exactly now
C18_NotOverdueWithoutDueDate ==
    /\ Counted
    /\ DOMAIN qry.f = DOMAIN ListDefaults \cup {"is_overdue"}
    /\ ~qry.f.is_overdue
    /\ \E i \in qry.selected : db[i].due_date = NoDate /\ ~db[i].completed

RECURSIVE Flat(_)
\* the pages received so far, one after the other
Flat(pages) == IF pages = <<>> THEN <<>> ELSE Head(pages) \o Flat(Tail(pages))

\* the client has paged to the end: the last window came back empty
EnumerationDone == qry.pc = "paged" /\ qry.page = <<>>

\* C19: total is the number of the owner's matching tasks whatever the
\* window, and paging with offsets 0, limit, 2*limit, ... to the end returns
\* each matching task exactly once, the page sizes adding up to total.
C19_PagesEnumerateOnce ==
    /\ Counted =>
          qry.total = Cardinality(Selected(db, qry.user_id, qry.f, qry.now))
    /\ EnumerationDone =>
          /\ Len(Flat(qry.pages)) = qry.total
          /\ \A i \in Selected(db, qry.user_id, qry.f, qry.now) :
                Cardinality({k \in 1..Len(Flat(qry.pages)) :
                                Flat(qry.pages)[k] = i}) = 1

(***************************************************************************)
(* Claims about the order of a page and about combined filters (checked    *)
(* under SpecList).                                                        *)
(***************************************************************************)
\* the call in qry has returned a page sorted by the given key
PageSortedBy(sort_by) == qry.pc = "paged" /\ qry.f.sort_by = sort_by

\* C21: in a page sorted by due_date, ascending or descending, no task
\* without a due date comes before a task with one, and the tasks with a due
\* date follow each other by date in the requested direction.
C21_NoDueDateLast ==
    PageSortedBy("due_date") =>
        \A i, j \in 1..Len(qry.page) :
            LET a == db[qry.page[i]].due_date
                b == db[qry.page[j]].due_date
            IN  i < j =>
                  /\ a = NoDate => b = NoDate
                  /\ (a # NoDate /\ b # NoDate) =>
                        IF qry.f.sort_order = "asc" THEN ~Earlier(b, a)
                                                    ELSE ~Earlier(a, b)

\* C21 witness: a descending page with two dated tasks, latest first,
\* followed by a task without due date
C21_DescendingEndsUndated ==
    /\ PageSortedBy("due_date")
    /\ qry.f.sort_order = "desc"
    /\ Len(qry.page) = 3
    /\ db[qry.page[1]].due_date = D3
    /\ db[qry.page[2]].due_date = D1
    /\ db[qry.page[3]].due_date = NoDate

\* HIGH outranks MEDIUM and LOW, MEDIUM outranks LOW
Outranks(p, q) ==
    \/ p = HIGH /\ q \in {MEDIUM, LOW}
    \/ p = MEDIUM /\ q = LOW

\* C22: a page sorted by priority follows the ranking HIGH > MEDIUM > LOW:
\* ascending never lists a task before one that outranks it, descending
\* never lists a task after one that outranks it.
C22_PriorityByRank ==
    PageSortedBy("priority") =>
        \A i, j \in 1..Len(qry.page) :
            i < j =>
                IF qry.f.sort_order = "asc"
                THEN ~Outranks(db[qry.page[j]].priority, db[qry.page[i]].priority)
                ELSE ~Outranks(db[qry.page[i]].priority, db[qry.page[j]].priority)

\* C22 witness: a descending page lists LOW, MEDIUM, HIGH, which is neither
\* the alphabetical order of the names nor its reverse
C22_LowMediumHigh ==
    /\ PageSortedBy("priority")
    /\ qry.f.sort_order = "desc"
    /\ Len(qry.page) = 3
    /\ db[qry.page[1]].priority = LOW
    /\ db[qry.page[2]].priority = MEDIUM
    /\ db[qry.page[3]].priority = HIGH

\* the parameters of a request that are filters
FilterNames ==
    {"search", "completed", "priority", "tags", "due_date_from",
     "due_date_to", "is_overdue"}

\* the request with only the filters named in keep
Keeping(f, keep) == [n \in (DOMAIN f \ FilterNames) \cup keep |-> f[n]]

EditRows ==
    { <<FALSE, None, NoDate, NoDate>>,
      <<TRUE, DAILY, D3, [y |-> 2026, m |-> 2, d |-> 28]>>,
      <<TRUE, DAILY, D1, NoDate>> }

\* bodies of PATCH /{task_id}: switch recurrence on, and the due date D3
\* written with the offset Z
EditInputs == { [is_recurring |-> TRUE], [due_date |-> Aware(D3)] }

InitEdit ==
    /\ \E user_id \in Users, r \in EditRows :
          db = Put(<<>>, 1, FirstRow(user_id, r))
    /\ nextId = 2
    /\ clock = 1
    /\ req = Idle
    /\ gen = {}
    /\ ret = [op |-> "none"]
    /\ qry = [pc |-> "idle"]
    /\ calc = CalcIdle
    /\ LimiterUnused

NextEdit ==
    \/ Next
    \/ \E user_id \in Users, task_id \in 1..MaxId, body \in EditInputs :
          UpdateTask(user_id, task_id, body)

SpecEdit == InitEdit /\ [][NextEdit]_vars

\* every stored task with is_recurring set has a due date and a pattern
RecurringWellFormed(store) ==
    \A i \in DOMAIN store :
        store[i].is_recurring =>
            store[i].due_date # NoDate /\ store[i].recurrence_pattern # None

\* the value the request asks the field to have: the one of the body, or the
\* stored one where the body says nothing
Asked(task, body, field) == IF Given(body, field) THEN body[field] ELSE task[field]

\* the task the request asks for would recur without a pattern or a due date
AsksIllFormed(task, body) ==
    /\ Asked(task, body, "is_recurring")
    /\ \/ Asked(task, body, "recurrence_pattern") = None
       \/ Asked(task, body, "due_date") = NoDate

\* C24: after every step each stored task with is_recurring set has a due
\* date and a pattern, and a create or update asking for a recurring task
\* without one of them is rejected and leaves the store as it was.
C24_RecurringNeedsDueAndPattern ==
    [][/\ RecurringWellFormed(db')
       /\ \A user_id \in Users, body \in CreateInputs :
             (CreateTask(user_id, body) /\ AsksIllFormed(TaskDefaults(0), body))
                 => db' = db
       /\ \A user_id \in Users, task_id \in DOMAIN db :
             \A body \in UpdateInputs \cup EditInputs :
                 ( /\ GetById(db, user_id, task_id) # NoRow
                   /\ AsksIllFormed(db[task_id], body)
                   /\ UpdateTask(user_id, task_id, body) )
                     => db' = db]_vars

\* the part of C24 about the stored rows alone
C24_StoredRecurringWellFormed == RecurringWellFormed(db)

\* C25: a step that gives a stored task another due date leaves its
\* notification_sent false, and an update that leaves the due date as it was
\* leaves notification_sent as it was.
C25_ResetExactlyOnChange ==
    [][\A i \in DOMAIN db \cap DOMAIN db' :
          /\ db'[i].due_date # db[i].due_date => ~db'[i].notification_sent
          /\ ( /\ db'[i].due_date = db[i].due_date
               /\ \E user_id \in Users, body \in UpdateInputs \cup EditInputs :
                     UpdateTask(user_id, i, body) )
                 => db'[i].notification_sent = db[i].notification_sent]_vars

\* the first half of C25 alone: a changed due date leaves the flag false
C25_ChangedDueDateResets ==
    [][\A i \in DOMAIN db \cap DOMAIN db' :
          db'[i].due_date # db[i].due_date => ~db'[i].notification_sent]_vars

(***************************************************************************)
(* SpecPattern: complete_task on a task whose recurrence_pattern is a      *)
(* value calculate_next_due_date has no branch for.  The handlers never    *)
(* write the column and its type admits the three known labels only, so    *)
(* the first row stands for a task handed to the engine in violation of    *)
(* its contract, the case the final else of task_service.py:248 is for.    *)
(***************************************************************************)
YEARLY == "yearly"

\* first row of SpecPattern: a task with the unknown pattern, with and
\* without end date, or a daily task
PatternRows ==
    { <<TRUE, YEARLY, D1, NoDate>>,
      <<TRUE, YEARLY, D1, [y |-> 2026, m |-> 3, d |-> 1]>>,
      <<TRUE, DAILY, D1, NoDate>> }

InitPattern ==
    /\ \E user_id \in Users, r \in PatternRows :
          db = Put(<<>>, 1, FirstRow(user_id, r))
    /\ nextId = 2
    /\ clock = 1
    /\ req = Idle
    /\ gen = {}
    /\ ret = [op |-> "none"]
    /\ qry = [pc |-> "idle"]
    /\ calc = CalcIdle
    /\ LimiterUnused

NextPattern == Next \/ CompleteRaise

SpecPattern == InitPattern /\ [][NextPattern]_vars

\* the request in flight has marked a recurring task whose pattern is none
\* of DAILY, WEEKLY, MONTHLY
HitsUnknownPattern ==
    /\ req.pc = "flushed"
    /\ IsRecurring(req.task)
    /\ req.task.recurrence_pattern \notin RecurrencePattern

\* C26: calculate_next_due_date on a pattern outside DAILY, WEEKLY, MONTHLY
\* yields the error and no date, and a complete_task that meets such a
\* pattern inserts nothing and ends in an error with the store as it was:
\* the task is not recorded as completed and no successor exists.
C26_UnknownPatternChangesNothing ==
    [][/\ \A i \in DOMAIN db :
             db[i].recurrence_pattern \notin RecurrencePattern \cup {None} =>
                 CalculateNextDueDate(db[i].due_date,
                                      db[i].recurrence_pattern) = InvalidPattern
       /\ HitsUnknownPattern =>
             /\ req'.pc # "created"
             /\ ~InFlight' =>
                   /\ db' = db
                   /\ gen' = gen
                   /\ ret'.status = "error"]_vars

\* C26 witness: complete_task ended with the ValueError on a task that is
\* stored as not completed, and no task was added
C26_RaisedAndRolledBack ==
    /\ ~InFlight
    /\ "error" \in DOMAIN ret
    /\ ret.error = "ValueError"
    /\ ret.task_id \in DOMAIN db
    /\ db[ret.task_id].recurrence_pattern = YEARLY
    /\ ~db[ret.task_id].completed
    /\ gen = {}
    /\ DOMAIN db = {ret.task_id}

(***************************************************************************)
(* Claims about create_task (checked under Spec), and about toggle and    *)
(* the owner of a next instance (checked under SpecPattern, which runs the *)
(* handlers of Spec on a daily task as well).                              *)
(***************************************************************************)
\* C27: a task created with is_recurring set, a pattern, a due date and an
\* optional end date is stored with exactly these recurrence fields, so
\* that complete_task on it goes on to generate the next instance.
C27_RecurrenceStoredOnCreate ==
    [][\A user_id \in Users, body \in CreateInputs :
          ( /\ body.is_recurring
            /\ body.recurrence_pattern # None
            /\ body.due_date # NoDate
            /\ CreateTask(user_id, body)
            /\ nextId \in DOMAIN db' )
              => /\ db'[nextId].is_recurring
                 /\ db'[nextId].recurrence_pattern = body.recurrence_pattern
                 /\ db'[nextId].recurrence_end_date = body.recurrence_end_date
                 /\ db'[nextId].due_date = body.due_date
                 /\ IsRecurring(db'[nextId])]_vars

\* C28: toggle on an owned task flips completed and stamps updated_at,
\* leaves every other field of every task as it was and adds no row and no
\* next instance, so that a second toggle restores completed; toggle on an
\* absent or unowned id changes nothing.
C28_ToggleFlipsOnly ==
    [][\A user_id \in Users, task_id \in 1..(MaxId + 1) :
          ToggleTask(user_id, task_id) =>
              IF AbsentOrUnowned(user_id, task_id)
              THEN UNCHANGED <<db, nextId, gen>>
              ELSE /\ DOMAIN db' = DOMAIN db
                   /\ db'[task_id].completed = ~db[task_id].completed
                   /\ db'[task_id].updated_at = clock'
                   /\ clock' > clock
                   /\ db'[task_id] =
                         [db[task_id] EXCEPT
                             !.completed = db'[task_id].completed,
                             !.updated_at = db'[task_id].updated_at]
                   /\ \A i \in DOMAIN db \ {task_id} : db'[i] = db[i]
                   /\ UNCHANGED <<nextId, gen>>]_vars

\* C28 witness: a daily task was toggled to completed and back: it is not
\* completed, its last write is the second toggle, and it is the only row
C28_ToggledTwice ==
    /\ ~InFlight
    /\ DOMAIN db = {1}
    /\ nextId = 2
    /\ gen = {}
    /\ clock = 3
    /\ db[1] = [FirstRow(db[1].user_id, <<TRUE, DAILY, D1, NoDate>>)
                    EXCEPT !.updated_at = 3]

\* C29: a next instance is stored under the owner of the task that was
\* completed, and no step moves a stored task to another owner, so that
\* every chain of generated tasks stays with one owner.
C29_SuccessorKeepsOwner ==
    [][/\ \A g \in gen' \ gen :
             /\ g.id \in DOMAIN db' /\ g.origin \in DOMAIN db
             /\ db'[g.id].user_id = db[g.origin].user_id
       /\ \A i \in DOMAIN db \cap DOMAIN db' :
             db'[i].user_id = db[i].user_id]_vars

\* C29 witness: a next instance of a task of u2 is stored beside a task of u1
C29_GeneratedForSecondOwner ==
    \E g \in gen :
        /\ g.id \in DOMAIN db /\ g.origin \in DOMAIN db
        /\ db[g.origin].user_id = "u2"
        /\ db[g.id].user_id = "u2"
        /\ \E i \in DOMAIN db : db[i].user_id = "u1"

(***************************************************************************)
(* SpecRate: calls of check_rate_limit by two users while time passes.     *)
(* The wall clock does not run backwards.                                  *)
(***************************************************************************)
InitRate ==
    /\ StoreUnused
    /\ calc = CalcIdle

NextRate ==
    \/ \E user_id \in Users : CheckRateLimit(user_id)
    \/ Tick

SpecRate == InitRate /\ [][NextRate]_vars

\* the number of calls of the user that were allowed with a timestamp in the
\* window of the given length that starts at from
AllowedIn(history, user_id, from, length) ==
    Cardinality({k \in 1..Len(Entries(history, user_id)) :
                    /\ history[user_id][k] >= from
                    /\ history[user_id][k] < from + length})

\* C30: for every user, the allowed calls with timestamps inside any window
\* of one minute number at most requests_per_minute and inside any window
\* of one hour at most requests_per_hour; a call is allowed exactly when the
\* user's own allowed calls of the last minute and of the last hour are
\* below the limits, so that rejected calls and other users' calls do not
\* count; a rejected call is not recorded.
C30_WithinLimits ==
    [][/\ \A user_id \in Users, from \in (0 - OneHour)..MaxNow :
             /\ AllowedIn(calls'.allowed, user_id, from, OneMinute)
                    <= RequestsPerMinute
             /\ AllowedIn(calls'.allowed, user_id, from, OneHour)
                    <= RequestsPerHour
       /\ \A user_id \in Users :
             CheckRateLimit(user_id) =>
                 LET now == calls.now
                     mine == AllowedIn(calls.allowed, user_id,
                                       now - OneMinute + 1, OneMinute)
                     hour == AllowedIn(calls.allowed, user_id,
                                       now - OneHour + 1, OneHour)
                 IN  /\ calls'.last.is_allowed =
                           (mine < RequestsPerMinute /\ hour < RequestsPerHour)
                     /\ ~calls'.last.is_allowed =>
                           /\ calls'.allowed = calls.allowed
                           /\ SumCounts(Entries(limiter'.minute_requests, user_id))
                                 <= SumCounts(Entries(limiter.minute_requests, user_id))
                           /\ SumCounts(Entries(limiter'.hourly_requests, user_id))
                                 <= SumCounts(Entries(limiter.hourly_requests, user_id))
                     /\ \A other \in Users \ {user_id} :
                           /\ Entries(limiter'.minute_requests, other)
                                 = Entries(limiter.minute_requests, other)
                           /\ Entries(limiter'.hourly_requests, other)
                                 = Entries(limiter.hourly_requests, other)]_vars

\* C30 witness: u1 was rejected by the hour limit with room left under the
\* minute limit, while u2 had used up its minute
C30_RejectedByHourLimit ==
    /\ calls.last.user_id = "u1"
    /\ ~calls.last.is_allowed
    /\ AllowedIn(calls.allowed, "u1", calls.now - OneMinute + 1, OneMinute)
          < RequestsPerMinute
    /\ AllowedIn(calls.allowed, "u1", calls.now - OneHour + 1, OneHour)
          = RequestsPerHour
    /\ AllowedIn(calls.allowed, "u2", calls.now - OneMinute + 1, OneMinute)
          = RequestsPerMinute

====
